---- MODULE Spec2Model ----
(***************************************************************************)
(* Model of the natural-language-to-SQL compiler of EvoTrack:              *)
(* GitHubQueryAnalyzer in src/NLP/enhanced_text_to_sql.py.                 *)
(*                                                                         *)
(* Python strings are TLA+ strings; Python lists are sequences.  A Python  *)
(* value whose type matters is a record [type, val]: the text handed to    *)
(* build_sql_query is a str or None, repo_id is an int or None.  An        *)
(* operator that models code which can raise returns [exc, val].           *)
(***************************************************************************)
EXTENDS Integers, Sequences, FiniteSets, TLC

VARIABLES
    keywords,        \* self.keywords: sequence of <<key, action>> in dict order
    entity_mapping,  \* self.entity_mapping: sequence of entity records in dict order
    time_patterns,   \* self.time_patterns: sequence of <<key, regex>> in dict order
    stop_words,      \* self.stop_words
    text,            \* argument text of the running call
    repo_id,         \* argument repo_id of the running call
    pc,              \* position of the running call in build_sql_query
    tokens,          \* local tokens
    matched,         \* number of the special case whose return ran (0: none)
    action,          \* local action
    table,           \* local table ("" stands for None)
    called,          \* the helper methods the running call has invoked
    result,          \* the returned string
    remembered,      \* an earlier completed call: <<text, repo_id, result>>, or <<>>
    other,           \* the frame of the call of a second thread, which is suspended
    doc,             \* GitHubQueryParser: doc.text of the running parse_query
    now,             \* GitHubQueryParser: datetime.datetime.now() during that call
    filters,         \* GitHubQueryParser: local filters of detect_filters
    ppc,             \* GitHubQueryParser: position of the running parse_query
    parsed_data,     \* GitHubQueryParser: intent, entity and columns of parse_query
    sql_query        \* GitHubQueryParser: what build_sql_query(parsed_data) returned

analyzer == <<keywords, entity_mapping, time_patterns, stop_words>>
locals == <<tokens, matched, action, table, called, result>>
parser == <<doc, now, filters, ppc, parsed_data, sql_query>>
vars == <<keywords, entity_mapping, time_patterns, stop_words, text, repo_id, pc,
          tokens, matched, action, table, called, result, remembered, other,
          doc, now, filters, ppc, parsed_data, sql_query>>

----------------------------------------------------------------------------
(* Python values *)

PyStr(s) == [type |-> "str", val |-> s]
NoneText == [type |-> "NoneType", val |-> ""]
PyInt(n) == [type |-> "int", val |-> n]
NoneId == [type |-> "NoneType", val |-> 0]

Ok(v) == [exc |-> FALSE, val |-> v]
Raise(v) == [exc |-> TRUE, val |-> v]

----------------------------------------------------------------------------
(* str primitives, on the ASCII letters, digits, "_", "-", ";", white space *)

Char(s, i) == SubSeq(s, i, i)

UpperChars == "ABCDEFGHIJKLMNOPQRSTUVWXYZ"
LowerChars == "abcdefghijklmnopqrstuvwxyz"
DigitChars == "0123456789"

CharsOf(chars) == {Char(chars, i) : i \in 1..Len(chars)}
UpperSet == CharsOf(UpperChars)
LowerSet == CharsOf(LowerChars)
DigitSet == CharsOf(DigitChars)
\* the lower-case letter of each upper-case letter
ToLower == [c \in UpperSet |->
              Char(LowerChars, CHOOSE i \in 1..Len(UpperChars) : Char(UpperChars, i) = c)]

IsDigit(c) == c \in DigitSet
IsAlnumChar(c) == c \in LowerSet \/ c \in UpperSet \/ c \in DigitSet
\* \w of the re module
IsWordChar(c) == IsAlnumChar(c) \/ c = "_"
\* \s of the re module, and the white space word_tokenize splits on
IsSpace(c) == c \in {" ", "\t", "\n", "\r"}

LowerChar(c) == IF c \in UpperSet THEN ToLower[c] ELSE c

RECURSIVE lower(_)
lower(s) == IF s = "" THEN "" ELSE LowerChar(Head(s)) \o lower(Tail(s))

\* sub in s
Contains(sub, s) ==
    \E i \in 1..(Len(s) - Len(sub) + 1) : SubSeq(s, i, i + Len(sub) - 1) = sub

\* any(w in s for w in ws)
ContainsAny(ws, s) == \E k \in 1..Len(ws) : Contains(ws[k], s)

\* x in xs, for a list xs
InList(x, xs) == \E k \in 1..Len(xs) : xs[k] = x

\* s.isalnum()
isalnum(s) == s # "" /\ \A i \in 1..Len(s) : IsAlnumChar(Char(s, i))

\* s.startswith(p), s.endswith(p)
startswith(s, p) == Len(p) <= Len(s) /\ SubSeq(s, 1, Len(p)) = p
endswith(s, p) == Len(p) <= Len(s) /\ SubSeq(s, Len(s) - Len(p) + 1, Len(s)) = p

\* sep.join(xs)
RECURSIVE join(_, _)
join(sep, xs) ==
    IF xs = <<>> THEN ""
    ELSE IF Len(xs) = 1 THEN xs[1]
    ELSE xs[1] \o sep \o join(sep, Tail(xs))

\* col.split('_')[-1]
RECURSIVE LastSegment(_)
LastSegment(s) ==
    IF s = "" THEN ""
    ELSE IF Contains("_", Tail(s)) THEN LastSegment(Tail(s))
    ELSE IF Head(s) = "_" THEN Tail(s)
    ELSE s

\* f"{repo_id}" for an int
FormatInt(v) == ToString(v.val)

\* the index after the longest run of digits (of white space) that starts at i
RECURSIVE DigitsEnd(_, _)
DigitsEnd(s, i) == IF i <= Len(s) /\ IsDigit(Char(s, i)) THEN DigitsEnd(s, i + 1) ELSE i
RECURSIVE SpacesEnd(_, _)
SpacesEnd(s, i) == IF i <= Len(s) /\ IsSpace(Char(s, i)) THEN SpacesEnd(s, i + 1) ELSE i

\* \b between positions i-1 and i of s
WordBoundary(s, i) ==
    LET before == i > 1 /\ IsWordChar(Char(s, i - 1))
        after == i <= Len(s) /\ IsWordChar(Char(s, i))
    IN before # after

\* re.search(r"\b<word>\s+(\d+)\b", s): the match starting at position i, if any.
\* \s+ and \d+ are greedy; giving characters back never helps, since a shorter \s+
\* leaves a white space and a shorter \d+ leaves a digit (no \b) in front.
WordNumberAt(word, s, i) ==
    LET a == i + Len(word)
        b == SpacesEnd(s, a)
        c == DigitsEnd(s, b)
    IN /\ i + Len(word) - 1 <= Len(s)
       /\ SubSeq(s, i, a - 1) = word
       /\ WordBoundary(s, i)
       /\ b > a
       /\ c > b
       /\ WordBoundary(s, c)

\* a match object with its group(1), and None
Match(g) == [found |-> TRUE, group1 |-> g]
NoMatch == [found |-> FALSE, group1 |-> ""]

\* the leftmost match
WordNumberSearch(word, s) ==
    LET hits == {i \in 1..Len(s) : WordNumberAt(word, s, i)}
    IN IF hits = {} THEN NoMatch
       ELSE LET i == CHOOSE j \in hits : \A k \in hits : j <= k
                b == SpacesEnd(s, i + Len(word))
            IN Match(SubSeq(s, b, DigitsEnd(s, b) - 1))

\* re.search(r'(\d+)\s*<word>', s): the match starting at position i, if any
NumberWordAt(word, s, i) ==
    LET c == DigitsEnd(s, i)
        d == SpacesEnd(s, c)
    IN /\ c > i
       /\ d + Len(word) - 1 <= Len(s)
       /\ SubSeq(s, d, d + Len(word) - 1) = word

NumberWordSearch(word, s) ==
    LET hits == {i \in 1..Len(s) : NumberWordAt(word, s, i)}
    IN IF hits = {} THEN NoMatch
       ELSE LET i == CHOOSE j \in hits : \A k \in hits : j <= k
            IN Match(SubSeq(s, i, DigitsEnd(s, i) - 1))

----------------------------------------------------------------------------
(* GitHubQueryAnalyzer.__init__: the fields of the instance *)

\* stopwords.words('english') of the NLTK corpus
EnglishStopWords ==
    {"i", "me", "my", "myself", "we", "our", "ours", "ourselves", "you", "you're",
     "you've", "you'll", "you'd", "your", "yours", "yourself", "yourselves", "he",
     "him", "his", "himself", "she", "she's", "her", "hers", "herself", "it", "it's",
     "its", "itself", "they", "them", "their", "theirs", "themselves", "what",
     "which", "who", "whom", "this", "that", "that'll", "these", "those", "am", "is",
     "are", "was", "were", "be", "been", "being", "have", "has", "had", "having",
     "do", "does", "did", "doing", "a", "an", "the", "and", "but", "if", "or",
     "because", "as", "until", "while", "of", "at", "by", "for", "with", "about",
     "against", "between", "into", "through", "during", "before", "after", "above",
     "below", "to", "from", "up", "down", "in", "out", "on", "off", "over", "under",
     "again", "further", "then", "once", "here", "there", "when", "where", "why",
     "how", "all", "any", "both", "each", "few", "more", "most", "other", "some",
     "such", "no", "nor", "not", "only", "own", "same", "so", "than", "too", "very",
     "s", "t", "can", "will", "just", "don", "don't", "should", "should've", "now",
     "d", "ll", "m", "o", "re", "ve", "y", "ain", "aren", "aren't", "couldn",
     "couldn't", "didn", "didn't", "doesn", "doesn't", "hadn", "hadn't", "hasn",
     "hasn't", "haven", "haven't", "isn", "isn't", "ma", "mightn", "mightn't",
     "mustn", "mustn't", "needn", "needn't", "shan", "shan't", "shouldn",
     "shouldn't", "wasn", "wasn't", "weren", "weren't", "won", "won't", "wouldn",
     "wouldn't"}

InitKeywords ==
    << <<"show", "SELECT">>,
       <<"display", "SELECT">>,
       <<"find", "SELECT">>,
       <<"search", "SELECT">>,
       <<"list", "SELECT">>,
       <<"count", "SELECT COUNT(*)">>,
       <<"analyze", "SELECT">>,
       <<"top", "SELECT">>,
       <<"most", "SELECT">>,
       <<"track", "SELECT">>,
       <<"monitor", "SELECT">> >>

InitEntityMapping ==
    << [entity |-> "repository",
        patterns |-> <<"repository", "repositories", "repo", "repos">>,
        table |-> "repositories",
        columns |-> <<"repo_id", "name", "url", "stars", "forks">>],
       [entity |-> "author",
        patterns |-> <<"author", "authors", "contributor", "contributors",
                       "developer", "developers">>,
        table |-> "authors",
        columns |-> <<"author_id", "name", "email">>],
       [entity |-> "commit",
        patterns |-> <<"commit", "commits", "change", "changes">>,
        table |-> "commits",
        columns |-> <<"commit_id", "hash", "author_id", "repo_id", "timestamp",
                      "message">>],
       [entity |-> "file",
        patterns |-> <<"file", "files", "document", "documents", "code">>,
        table |-> "files",
        columns |-> <<"file_id", "repo_id", "path", "type", "status">>],
       [entity |-> "diff",
        patterns |-> <<"diff", "difference", "changes", "modification",
                       "modifications">>,
        table |-> "diffs",
        columns |-> <<"diff_id", "commit_id", "file_id", "lines_added",
                      "lines_deleted", "change_type">>] >>

InitTimePatterns ==
    << <<"today", "today|current day|this day">>,
       <<"yesterday", "yesterday|previous day|last day">>,
       <<"this_week", "this week|current week">>,
       <<"last_week", "last week|previous week">>,
       <<"this_month", "this month|current month">>,
       <<"last_month", "last month|previous month">> >>

----------------------------------------------------------------------------
(* preprocess_text *)

\* text.lower(): AttributeError when text is no str
str_lower(t) == IF t.type = "str" THEN Ok(lower(t.val)) ELSE Raise("AttributeError")

\* nltk's word_tokenize on a text of letters, digits, "_", single "-", ";" and
\* white space: the maximal runs of characters that are not white space, in order
\* (the tokenizer splits off neither "_" nor a single "-"), a ";" being a token
\* of its own
RECURSIVE SplitFrom(_, _, _)
SplitFrom(s, i, cur) ==
    IF i > Len(s) THEN (IF cur = "" THEN <<>> ELSE <<cur>>)
    ELSE IF IsSpace(Char(s, i))
         THEN (IF cur = "" THEN <<>> ELSE <<cur>>) \o SplitFrom(s, i + 1, "")
    ELSE IF Char(s, i) = ";"
         THEN (IF cur = "" THEN <<>> ELSE <<cur>>) \o <<";">> \o SplitFrom(s, i + 1, "")
         ELSE SplitFrom(s, i + 1, cur \o Char(s, i))

word_tokenize(s) == SplitFrom(s, 1, "")

\* [word for word in tokens if word.isalnum() and word not in self.stop_words]
RECURSIVE FilterTokens(_, _)
FilterTokens(ws, stop) ==
    IF ws = <<>> THEN <<>>
    ELSE (IF isalnum(Head(ws)) /\ Head(ws) \notin stop THEN <<Head(ws)>> ELSE <<>>)
         \o FilterTokens(Tail(ws), stop)

\* the body of the try block
preprocess_text_try(t, stop) ==
    LET low == str_lower(t)
    IN IF low.exc THEN low ELSE Ok(FilterTokens(word_tokenize(low.val), stop))

\* except Exception: return []
preprocess_text(t, stop) ==
    LET r == preprocess_text_try(t, stop)
    IN IF r.exc THEN <<>> ELSE r.val

----------------------------------------------------------------------------
(* identify_action, identify_table, identify_columns, identify_conditions *)

\* self.keywords[token], for a token that is a key
KeywordValue(kw, token) == kw[CHOOSE k \in 1..Len(kw) : kw[k][1] = token][2]
IsKeyword(kw, token) == \E k \in 1..Len(kw) : kw[k][1] = token

identify_action(toks, kw) ==
    LET hits == {i \in 1..Len(toks) : IsKeyword(kw, toks[i])}
    IN IF hits # {}
       THEN KeywordValue(kw, toks[CHOOSE i \in hits : \A j \in hits : i <= j])
       ELSE IF \E i \in 1..Len(toks) : toks[i] \in {"count", "total", "sum"}
            THEN "SELECT COUNT(*)"
            ELSE "SELECT"

\* mutant: the entity of the first word that is a pattern of some entity
identify_table_first_token(words, em) ==
    LET hits == {i \in 1..Len(words) : \E e \in 1..Len(em) : InList(words[i], em[e].patterns)}
    IN IF hits = {} THEN ""
       ELSE LET w == words[CHOOSE i \in hits : \A j \in hits : i <= j]
            IN em[CHOOSE e \in 1..Len(em) :
                     /\ InList(w, em[e].patterns)
                     /\ \A f \in 1..(e - 1) : ~InList(w, em[f].patterns)].table

\* the first entity, in the order of the dict, one of whose patterns is a word;
\* "" stands for None
identify_table(words, em) ==
    LET hits == {e \in 1..Len(em) :
                    \E p \in 1..Len(em[e].patterns) : InList(em[e].patterns[p], words)}
    IN IF hits = {} THEN ""
       ELSE em[CHOOSE e \in hits : \A f \in hits : e <= f].table

\* [col for col in cols if col.split('_')[-1] in words]
RECURSIVE MentionedColumns(_, _)
MentionedColumns(cols, words) ==
    IF cols = <<>> THEN <<>>
    ELSE (IF InList(LastSegment(Head(cols)), words) THEN <<Head(cols)>> ELSE <<>>)
         \o MentionedColumns(Tail(cols), words)

DefaultColumns(tbl) ==
    CASE tbl = "repositories" -> <<"repo_id", "name", "stars", "forks">>
      [] tbl = "authors" -> <<"author_id", "name", "email">>
      [] tbl = "commits" -> <<"commit_id", "hash", "timestamp">>
      [] tbl = "files" -> <<"file_id", "path", "type", "status">>
      [] tbl = "diffs" -> <<"diff_id", "lines_added", "lines_deleted">>
      [] OTHER -> <<"*">>

\* mutant: the columns mentioned in the text are not looked for
identify_columns_default_only(words, tbl, em) ==
    IF \E i \in 1..Len(words) : words[i] \in {"count", "how many", "total"}
    THEN <<"COUNT(*)">>
    ELSE DefaultColumns(tbl)

identify_columns(words, tbl, em) ==
    IF \E i \in 1..Len(words) : words[i] \in {"count", "how many", "total"}
    THEN <<"COUNT(*)">>
    ELSE LET infos == {e \in 1..Len(em) : em[e].table = tbl}
         IN IF infos = {} THEN <<"*">>
            ELSE LET info == em[CHOOSE e \in infos : \A f \in infos : e <= f]
                     columns == MentionedColumns(info.columns, words)
                 IN IF columns # <<>> THEN columns ELSE DefaultColumns(tbl)

\* the comparison of one metric ("stars", "forks")
MetricCondition(metric, low) ==
    IF Contains(metric, low)
    THEN LET m == NumberWordSearch(metric, low)
         IN IF ~m.found THEN <<>>
            ELSE IF Contains("more than", low) \/ Contains("greater than", low)
                 THEN <<metric \o " >= " \o m.group1>>
            ELSE IF Contains("less than", low)
                 THEN <<metric \o " <= " \o m.group1>>
            ELSE <<metric \o " = " \o m.group1>>
    ELSE <<>>

TimeCondition(low) ==
    IF Contains("this month", low)
    THEN <<"EXTRACT(MONTH FROM created_at) = EXTRACT(MONTH FROM CURRENT_DATE) AND EXTRACT(YEAR FROM created_at) = EXTRACT(YEAR FROM CURRENT_DATE)">>
    ELSE IF Contains("last month", low)
    THEN <<"created_at >= DATE_TRUNC('month', CURRENT_DATE - INTERVAL '1 month') AND created_at < DATE_TRUNC('month', CURRENT_DATE)">>
    ELSE <<>>

identify_conditions(t) ==
    LET low == str_lower(t)
    IN IF low.exc THEN <<>>
       ELSE MetricCondition("stars", low.val) \o MetricCondition("forks", low.val)
            \o TimeCondition(low.val)

----------------------------------------------------------------------------
(* build_sql_query: the special cases, numbered in the order of the source *)

NumSpecialCases == 17

AuthorWords == <<"developer", "author", "contributor">>

\* mutant: the pattern r"\btop\s+(\d)", which captures one digit only
top_match_one_digit(low) ==
    LET m == WordNumberSearch("top", low)
    IN IF m.found THEN Match(Char(m.group1, 1)) ELSE NoMatch

top_match(low) == WordNumberSearch("top", low)

\* mutant: a pattern for "bottom N" that never matches, so that the default is
\* always taken
bottom_match_never(low) == NoMatch

bottom_match(low) == WordNumberSearch("bottom", low)

\* the condition of the i-th special case's if statement
SpecialCase(i, low) ==
    CASE i = 1 ->  \* which author introduced the most bugs
            /\ (Contains("author", low) \/ Contains("contributor", low)
                    \/ Contains("developer", low))
            /\ Contains("introduc", low)
            /\ Contains("bug", low)
      [] i = 2 ->  \* most changed file
            /\ Contains("most", low)
            /\ Contains("file", low)
            /\ (Contains("change", low) \/ Contains("changes", low) \/ Contains("lines", low))
      [] i = 3 ->  \* most additions
            /\ Contains("most", low)
            /\ Contains("file", low)
            /\ (Contains("addition", low) \/ Contains("added", low))
      [] i = 4 ->  \* most deletions
            /\ Contains("most", low)
            /\ Contains("file", low)
            /\ (Contains("deletion", low) \/ Contains("deleted", low))
      [] i = 5 ->  \* top N files by changes
            top_match(low).found /\ Contains("file", low)
      [] i = 6 ->  \* top contributor (single)
            \/ Contains("which developer contributed the most", low)
            \/ /\ Contains("most", low)
               /\ ContainsAny(AuthorWords, low)
               /\ ContainsAny(<<"commit", "commits", "contributed">>, low)
      [] i = 7 ->  \* top contributors by commit (default 10)
            Contains("top contributors by commit", low)
      [] i = 8 ->  \* top N contributors by commit
            top_match(low).found /\ Contains("contributor", low)
      [] i = 9 ->  \* bottom N contributors by commit
            /\ (bottom_match(low).found \/ Contains("bottom", low))
            /\ ContainsAny(<<"contributor", "contributors", "author", "authors",
                             "developer", "developers">>, low)
      [] i = 10 -> \* commits from last 30 days
            Contains("commits from last 30 days", low)
      [] i = 11 -> \* most active developer in last 30 days
            /\ Contains("last 30 days", low)
            /\ ContainsAny(AuthorWords, low)
            /\ (Contains("most", low) \/ Contains("top", low))
      [] i = 12 -> \* count commits
            /\ (Contains("how many", low) \/ Contains("count", low))
            /\ Contains("commit", low)
      [] i = 13 -> \* count contributors
            /\ (Contains("how many", low) \/ Contains("count", low))
            /\ ContainsAny(<<"contributor", "author", "developer">>, low)
      [] i = 14 -> \* commit with most changes
            /\ Contains("which commit", low)
            /\ (Contains("most", low) /\ Contains("change", low))
      [] i = 15 -> \* developer who fixed the most bugs
            /\ ContainsAny(AuthorWords, low)
            /\ (Contains("fix", low) \/ Contains("fixed", low))
            /\ Contains("bug", low)
      [] i = 16 -> \* repository with most changes
            /\ Contains("repository", low)
            /\ Contains("most", low)
            /\ (Contains("change", low) \/ Contains("changes", low))
      [] i = 17 -> \* count commits per repository
            Contains("count commits per repository", low)
      [] OTHER -> FALSE

\* mutant: the scoping clause is forgotten
Where_unscoped(column, rid) == ""

\* f"WHERE <column> = {repo_id} " if repo_id is not None else ""
Where(column, rid) ==
    IF rid.type # "NoneType" THEN "WHERE " \o column \o " = " \o FormatInt(rid) \o " " ELSE ""

\* the string the i-th special case returns
SpecialCaseSQL(i, low, rid) ==
    CASE i = 1 ->
            IF rid.type # "NoneType"
            THEN "SELECT authors.name, COUNT(bugs.bug_id) AS bugs_introduced "
                 \o "FROM bugs "
                 \o "JOIN commits ON bugs.introduced_commit = commits.commit_id "
                 \o "JOIN authors ON commits.author_id = authors.author_id "
                 \o "WHERE commits.repo_id = " \o FormatInt(rid) \o " "
                 \o "GROUP BY authors.author_id, authors.name "
                 \o "ORDER BY bugs_introduced DESC "
                 \o "LIMIT 1;"
            ELSE "SELECT authors.name, COUNT(bugs.bug_id) AS bugs_introduced "
                 \o "FROM bugs "
                 \o "JOIN commits ON bugs.introduced_commit = commits.commit_id "
                 \o "JOIN authors ON commits.author_id = authors.author_id "
                 \o "GROUP BY authors.author_id, authors.name "
                 \o "ORDER BY bugs_introduced DESC "
                 \o "LIMIT 1;"
      [] i = 2 ->
            "SELECT files.path AS most_changed_file, SUM(diffs.lines_added + diffs.lines_deleted) AS total_changes "
            \o "FROM files JOIN diffs ON files.file_id = diffs.file_id "
            \o "JOIN commits ON diffs.commit_id = commits.commit_id "
            \o Where("commits.repo_id", rid)
            \o "GROUP BY files.file_id, files.path ORDER BY total_changes DESC LIMIT 1;"
      [] i = 3 ->
            "SELECT files.path AS most_added_file, SUM(diffs.lines_added) AS total_additions "
            \o "FROM files JOIN diffs ON files.file_id = diffs.file_id JOIN commits ON diffs.commit_id = commits.commit_id "
            \o Where("commits.repo_id", rid)
            \o "GROUP BY files.file_id, files.path ORDER BY total_additions DESC LIMIT 1;"
      [] i = 4 ->
            "SELECT files.path AS most_deleted_file, SUM(diffs.lines_deleted) AS total_deletions "
            \o "FROM files JOIN diffs ON files.file_id = diffs.file_id JOIN commits ON diffs.commit_id = commits.commit_id "
            \o Where("commits.repo_id", rid)
            \o "GROUP BY files.file_id, files.path ORDER BY total_deletions DESC LIMIT 1;"
      [] i = 5 ->
            "SELECT files.path, SUM(diffs.lines_added + diffs.lines_deleted) AS total_changes "
            \o "FROM files JOIN diffs ON files.file_id = diffs.file_id JOIN commits ON diffs.commit_id = commits.commit_id "
            \o Where("commits.repo_id", rid)
            \o "GROUP BY files.file_id, files.path ORDER BY total_changes DESC LIMIT "
            \o top_match(low).group1 \o ";"
      [] i = 6 ->
            "SELECT authors.name AS top_contributor, COUNT(commits.commit_id) AS commit_count "
            \o "FROM commits JOIN authors ON commits.author_id = authors.author_id "
            \o Where("commits.repo_id", rid)
            \o "GROUP BY authors.author_id, authors.name ORDER BY commit_count DESC LIMIT 1;"
      [] i = 7 ->
            "SELECT authors.name, COUNT(commits.commit_id) as commit_count FROM authors JOIN commits ON authors.author_id = commits.author_id GROUP BY authors.author_id, authors.name ORDER BY commit_count DESC LIMIT 10;"
      [] i = 8 ->
            "SELECT authors.name, COUNT(commits.commit_id) as commit_count FROM authors JOIN commits ON authors.author_id = commits.author_id GROUP BY authors.author_id, authors.name ORDER BY commit_count DESC LIMIT "
            \o top_match(low).group1 \o ";"
      [] i = 9 ->
            "SELECT authors.name AS name, COUNT(commits.commit_id) AS commit_count "
            \o "FROM commits JOIN authors ON commits.author_id = authors.author_id "
            \o Where("commits.repo_id", rid)
            \o "GROUP BY authors.author_id, authors.name ORDER BY commit_count ASC LIMIT "
            \o (IF bottom_match(low).found THEN bottom_match(low).group1 ELSE "3") \o ";"
      [] i = 10 ->
            "SELECT commits.commit_id, authors.name, repositories.name as repo_name, commits.message, commits.timestamp FROM commits JOIN authors ON commits.author_id = authors.author_id JOIN repositories ON commits.repo_id = repositories.repo_id WHERE commits.timestamp >= CURRENT_DATE - INTERVAL 30 DAY ORDER BY commits.timestamp DESC;"
      [] i = 11 ->
            "SELECT authors.name AS top_contributor, COUNT(commits.commit_id) AS commit_count FROM commits JOIN authors ON commits.author_id = authors.author_id WHERE commits.timestamp >= CURRENT_DATE - INTERVAL 30 DAY GROUP BY authors.author_id, authors.name ORDER BY commit_count DESC LIMIT 1;"
      [] i = 12 ->
            "SELECT COUNT(*) AS total_commits FROM commits " \o Where("repo_id", rid) \o ";"
      [] i = 13 ->
            IF rid.type # "NoneType"
            THEN "SELECT COUNT(DISTINCT commits.author_id) AS contributors FROM commits WHERE commits.repo_id = "
                 \o FormatInt(rid) \o ";"
            ELSE "SELECT COUNT(DISTINCT authors.author_id) AS contributors FROM authors;"
      [] i = 14 ->
            "SELECT commits.hash AS top_commit, SUM(diffs.lines_added + diffs.lines_deleted) AS total_changes FROM commits JOIN diffs ON commits.commit_id = diffs.commit_id "
            \o Where("commits.repo_id", rid)
            \o "GROUP BY commits.commit_id, commits.hash ORDER BY total_changes DESC LIMIT 1;"
      [] i = 15 ->
            "SELECT authors.name AS top_fixer, COUNT(bugs.bug_id) AS bugs_fixed FROM bugs JOIN commits ON bugs.fixed_commit = commits.commit_id JOIN authors ON commits.author_id = authors.author_id "
            \o Where("commits.repo_id", rid)
            \o "GROUP BY authors.author_id, authors.name ORDER BY bugs_fixed DESC LIMIT 1;"
      [] i = 16 ->
            "SELECT repositories.name AS top_repository, SUM(diffs.lines_added + diffs.lines_deleted) AS total_changes FROM repositories JOIN commits ON repositories.repo_id = commits.repo_id JOIN diffs ON commits.commit_id = diffs.commit_id GROUP BY repositories.repo_id, repositories.name ORDER BY total_changes DESC LIMIT 1;"
      [] i = 17 ->
            "SELECT repositories.name, COUNT(commits.commit_id) as commit_count FROM repositories LEFT JOIN commits ON repositories.repo_id = commits.repo_id GROUP BY repositories.repo_id, repositories.name ORDER BY commit_count DESC;"
      [] OTHER -> ""

\* mutant: the chain without "count commits" (12)
special_case_without_count_commits(low) ==
    IF \E i \in (1..11) \cup (13..17) : SpecialCase(i, low)
    THEN CHOOSE i \in (1..11) \cup (13..17) :
            SpecialCase(i, low) /\ \A j \in ((1..11) \cup (13..17)) : j < i => ~SpecialCase(j, low)
    ELSE 0

\* mutant: "count contributors" (13) is tested before "count commits" (12)
special_case_contributors_first(low) ==
    IF \E i \in 1..11 : SpecialCase(i, low)
    THEN CHOOSE i \in 1..11 : SpecialCase(i, low) /\ \A j \in 1..(i - 1) : ~SpecialCase(j, low)
    ELSE IF SpecialCase(13, low) THEN 13
    ELSE IF SpecialCase(12, low) THEN 12
    ELSE IF SpecialCase(14, low) THEN 14
    ELSE IF SpecialCase(15, low) THEN 15
    ELSE IF SpecialCase(16, low) THEN 16
    ELSE IF SpecialCase(17, low) THEN 17
    ELSE 0

\* mutant: the chain without "which author introduced the most bugs" (1)
special_case_without_bug_introduction(low) ==
    IF \E i \in 2..17 : SpecialCase(i, low)
    THEN CHOOSE i \in 2..17 : SpecialCase(i, low) /\ \A j \in 2..(i - 1) : ~SpecialCase(j, low)
    ELSE 0

\* the chain of if statements: the number of the special case whose return runs,
\* 0 when control reaches "Extract components"
special_case(low) ==
    IF SpecialCase(1, low) THEN 1
    ELSE IF SpecialCase(2, low) THEN 2
    ELSE IF SpecialCase(3, low) THEN 3
    ELSE IF SpecialCase(4, low) THEN 4
    ELSE IF SpecialCase(5, low) THEN 5
    ELSE IF SpecialCase(6, low) THEN 6
    ELSE IF SpecialCase(7, low) THEN 7
    ELSE IF SpecialCase(8, low) THEN 8
    ELSE IF SpecialCase(9, low) THEN 9
    ELSE IF SpecialCase(10, low) THEN 10
    ELSE IF SpecialCase(11, low) THEN 11
    ELSE IF SpecialCase(12, low) THEN 12
    ELSE IF SpecialCase(13, low) THEN 13
    ELSE IF SpecialCase(14, low) THEN 14
    ELSE IF SpecialCase(15, low) THEN 15
    ELSE IF SpecialCase(16, low) THEN 16
    ELSE IF SpecialCase(17, low) THEN 17
    ELSE 0

----------------------------------------------------------------------------
(* build_sql_query: the generic query *)

\* mutant: the message without the prefix that the caller looks for
EmptyInput_without_prefix == "Could not process the input text"

EmptyInput == "Error: Could not process the input text"
NoEntity == "Error: Could not identify the table"
InternalFault == "Error: Could not generate SQL query"

\* api_query of src/backend/app.py: the returned string is answered as an
\* error, with status 400, and is not executed
api_query_rejects(sql) == startswith(sql, "Error")

\* mutant: the joins are appended whatever the table is
Joins_any_table(low, tbl) ==
    (IF Contains("author", low)
     THEN " JOIN authors ON commits.author_id = authors.author_id" ELSE "")
    \o (IF Contains("repository", low)
        THEN " JOIN repositories ON commits.repo_id = repositories.repo_id" ELSE "")

Joins(low, tbl) ==
    (IF Contains("author", low) /\ tbl = "commits"
     THEN " JOIN authors ON commits.author_id = authors.author_id" ELSE "")
    \o (IF Contains("repository", low) /\ tbl = "commits"
        THEN " JOIN repositories ON commits.repo_id = repositories.repo_id" ELSE "")

WhereClause(conditions) ==
    IF conditions # <<>> THEN " WHERE " \o join(" AND ", conditions) ELSE ""

\* mutant: the grouping branch compares with the table names that identify_table
\* returns
GroupBy_lowercase_tables(low, tbl) ==
    IF ContainsAny(<<"per", "group by", "count by">>, low)
    THEN IF tbl = "repositories" THEN " GROUP BY Repository.repo_id, Repository.name"
         ELSE IF tbl = "authors" THEN " GROUP BY Author.author_id, Author.name"
         ELSE ""
    ELSE ""

GroupBy(low, tbl) ==
    IF ContainsAny(<<"per", "group by", "count by">>, low)
    THEN IF tbl = "Repository" THEN " GROUP BY Repository.repo_id, Repository.name"
         ELSE IF tbl = "Author" THEN " GROUP BY Author.author_id, Author.name"
         ELSE ""
    ELSE ""

\* mutant: stars is looked for before commit
OrderBy_stars_first(low) ==
    IF ContainsAny(<<"top", "most", "highest">>, low)
    THEN IF Contains("stars", low) THEN " ORDER BY stars DESC"
         ELSE IF Contains("commit", low) THEN " ORDER BY commit_count DESC"
         ELSE IF Contains("forks", low) THEN " ORDER BY forks DESC"
         ELSE ""
    ELSE ""

OrderBy(low) ==
    IF ContainsAny(<<"top", "most", "highest">>, low)
    THEN IF Contains("commit", low) THEN " ORDER BY commit_count DESC"
         ELSE IF Contains("stars", low) THEN " ORDER BY stars DESC"
         ELSE IF Contains("forks", low) THEN " ORDER BY forks DESC"
         ELSE ""
    ELSE ""

\* mutant: the query is returned without the closing ";"
generic_query_unterminated(t, low, toks, act, tbl, em) ==
    LET columns == identify_columns(toks, tbl, em)
        conditions == identify_conditions(t)
    IN act \o " " \o join(", ", columns) \o " FROM " \o tbl
       \o Joins(low, tbl) \o WhereClause(conditions) \o GroupBy(low, tbl)
       \o OrderBy(low)

\* lines 360-395, for the action and the table already identified
generic_query(t, low, toks, act, tbl, em) ==
    LET columns == identify_columns(toks, tbl, em)
        conditions == identify_conditions(t)
    IN act \o " " \o join(", ", columns) \o " FROM " \o tbl
       \o Joins(low, tbl) \o WhereClause(conditions) \o GroupBy(low, tbl)
       \o OrderBy(low) \o ";"

----------------------------------------------------------------------------
(* The calls of build_sql_query made on one analyzer *)

MaxPhrases == 2

\* the phrases the generated texts are made of
Phrases ==
    <<"count", "commits", "count_commits", "how many", "top 5", "contributors",
      "most", "file", "author", "repositories", "100 stars">>

\* the texts of up to n phrases, separated by one space
RECURSIVE PhraseTexts(_)
PhraseTexts(n) ==
    IF n = 0 THEN {""}
    ELSE LET shorter == PhraseTexts(n - 1)
         IN shorter \cup {Phrases[k] : k \in 1..Len(Phrases)}
                    \cup {u \o " " \o Phrases[k] : u \in shorter \ {""}, k \in 1..Len(Phrases)}

\* one text for each special case, the example queries of main, and texts without
\* a usable token
SampleTexts ==
    {" ", "  ", " \t\n", "the", "with_more_than",
     "Show repositories with more than 1000 stars",
     "List repositories created this month",
     "Find repositories with more than 10 forks",
     "top 5 contributors",
     "how many commits",
     "which author introduced the most bugs",
     "file with the most changes",
     "which file has the most added lines",
     "file with the most additions",
     "most deleted file",
     "top 3 files",
     "which developer contributed the most",
     "top contributors by commit",
     "bottom 2 developers",
     "bottom authors",
     "commits from last 30 days",
     "most active developer in last 30 days",
     "how many contributors",
     "which commit has the most changes",
     "which developer fixed the most bugs",
     "repository with most changes",
     "count commits per repository",
     "count_commits_author",
     "stop 5 contributors",
     "-top 5-contributors",
     "top 12 contributors",
     "top 5 top 3 contributors",
     "total files",
     "list all commits by author",
     "list changes",
     "show total files",
     "how many files",
     "list commits; drop table commits",
     "top 5 files;drop table files",
     "repositories with more than 100 stars and less than 50 forks",
     "top contributors",
     "show the top contributors",
     "bottom contributors",
     "bottom 2 bottom 7 authors",
     "list commits authored today",
     "commits of repository_x authored today",
     "commits in the repository-list",
     "commits authored this month",
     "files by author",
     "files per repository",
     "commits group by author_id",
     "count by repositories",
     "top repositories by stars",
     "repositories with highest forks and stars",
     "top repositories with more than 100 stars",
     "stop commits",
     "highest stars commits",
     "commits of the most forks",
     "top files",
     "stars of repositories",
     "hello world"}

Texts == {PyStr(s) : s \in PhraseTexts(MaxPhrases) \cup SampleTexts} \cup {NoneText}
RepoIds == {NoneId, PyInt(1), PyInt(42)}

\* the frame of a thread that is not in build_sql_query
IdleFrame ==
    [text |-> NoneText, repo_id |-> NoneId, pc |-> "idle", tokens |-> <<>>,
     matched |-> 0, action |-> "", table |-> "", called |-> {}, result |-> ""]

\* a datetime, by its date
Date(y, m, d) == [year |-> y, month |-> m, day |-> d]
Epoch == Date(1970, 1, 1)

\* the locals intent, entity and columns of a parse_query that has not set them
\* ("" stands for None)
NoParsedData == [intent |-> "", entity |-> "", columns |-> <<>>]

TypeOK ==
    /\ pc \in {"idle", "Start", "Normalized", "Generic", "Extracted", "Rendered",
               "Failed", "Raised"}
    /\ matched \in 0..NumSpecialCases
    /\ called \subseteq {"preprocess_text", "identify_action", "identify_table",
                         "identify_columns", "identify_conditions"}

Init ==
    /\ keywords = InitKeywords
    /\ entity_mapping = InitEntityMapping
    /\ time_patterns = InitTimePatterns
    /\ stop_words = EnglishStopWords
    /\ text = NoneText
    /\ repo_id = NoneId
    /\ pc = "idle"
    /\ tokens = <<>>
    /\ matched = 0
    /\ action = ""
    /\ table = ""
    /\ called = {}
    /\ result = ""
    /\ remembered = <<>>
    /\ other = IdleFrame
    /\ doc = ""
    /\ now = Epoch
    /\ filters = <<>>
    /\ ppc = "idle"
    /\ parsed_data = NoParsedData
    /\ sql_query = ""

\* a caller invokes build_sql_query(t, r)
Call(t, r) ==
    /\ pc = "idle"
    /\ text' = t
    /\ repo_id' = r
    /\ pc' = "Start"
    /\ tokens' = <<>>
    /\ matched' = 0
    /\ action' = ""
    /\ table' = ""
    /\ called' = {}
    /\ result' = ""
    /\ UNCHANGED <<analyzer, remembered, other, parser>>

\* mutant: "if tokens is None" in place of "if not tokens"
Normalize_no_empty_check ==
    /\ pc = "Start"
    /\ tokens' = preprocess_text(text, stop_words)
    /\ result' = result
    /\ pc' = "Normalized"
    /\ called' = called \cup {"preprocess_text"}
    /\ UNCHANGED <<analyzer, text, repo_id, matched, action, table, remembered, other, parser>>

\* mutant: a text without tokens is refused only when no special case matches it
Normalize_special_case_first ==
    /\ pc = "Start"
    /\ LET toks == preprocess_text(text, stop_words)
           low == str_lower(text)
       IN /\ tokens' = toks
          /\ IF toks = <<>> /\ (low.exc \/ special_case(low.val) = 0)
             THEN result' = EmptyInput /\ pc' = "Failed"
             ELSE result' = result /\ pc' = "Normalized"
    /\ called' = called \cup {"preprocess_text"}
    /\ UNCHANGED <<analyzer, text, repo_id, matched, action, table, remembered, other, parser>>

\* mutant: text.lower() is called outside every try block
Normalize_unguarded ==
    /\ pc = "Start"
    /\ LET r == preprocess_text_try(text, stop_words)
       IN IF r.exc
          THEN tokens' = <<>> /\ result' = result /\ pc' = "Raised"
          ELSE /\ tokens' = r.val
               /\ IF r.val = <<>>
                  THEN result' = EmptyInput /\ pc' = "Failed"
                  ELSE result' = result /\ pc' = "Normalized"
    /\ called' = called \cup {"preprocess_text"}
    /\ UNCHANGED <<analyzer, text, repo_id, matched, action, table, remembered, other, parser>>

\* mutant: the tokens of a call are added to self.stop_words
Normalize_learns_stop_words ==
    /\ pc = "Start"
    /\ LET toks == preprocess_text(text, stop_words)
       IN /\ tokens' = toks
          /\ stop_words' = stop_words \cup {toks[i] : i \in 1..Len(toks)}
          /\ IF toks = <<>>
             THEN result' = EmptyInput /\ pc' = "Failed"
             ELSE result' = result /\ pc' = "Normalized"
    /\ called' = called \cup {"preprocess_text"}
    /\ UNCHANGED <<keywords, entity_mapping, time_patterns, text, repo_id, matched,
                   action, table, remembered, other, parser>>

\* lines 216-219: tokens = self.preprocess_text(text); if not tokens: return ...
Normalize ==
    /\ pc = "Start"
    /\ LET toks == preprocess_text(text, stop_words)
       IN /\ tokens' = toks
          /\ IF toks = <<>>
             THEN result' = EmptyInput /\ pc' = "Failed"
             ELSE result' = result /\ pc' = "Normalized"
    /\ called' = called \cup {"preprocess_text"}
    /\ UNCHANGED <<analyzer, text, repo_id, matched, action, table, remembered, other, parser>>

\* lines 221-352: text_lower = text.lower() and the special cases; an exception
\* is caught at line 397
MatchSpecialCase ==
    /\ pc = "Normalized"
    /\ LET low == str_lower(text)
       IN IF low.exc
          THEN matched' = 0 /\ result' = InternalFault /\ pc' = "Failed"
          ELSE LET m == special_case(low.val)
               IN /\ matched' = m
                  /\ IF m # 0
                     THEN result' = SpecialCaseSQL(m, low.val, repo_id) /\ pc' = "Rendered"
                     ELSE result' = result /\ pc' = "Generic"
    /\ UNCHANGED <<analyzer, text, repo_id, tokens, action, table, called, remembered,
                   other, parser>>

\* mutant: the entity found is moved to the front of self.entity_mapping
ExtractComponents_moves_entity_first ==
    /\ pc = "Generic"
    /\ LET tbl == identify_table(tokens, entity_mapping)
           found == SelectSeq(entity_mapping, LAMBDA info : info.table = tbl)
           others == SelectSeq(entity_mapping, LAMBDA info : info.table # tbl)
       IN /\ action' = identify_action(tokens, keywords)
          /\ table' = tbl
          /\ entity_mapping' = found \o others
          /\ IF tbl = ""
             THEN result' = NoEntity /\ pc' = "Failed"
             ELSE result' = result /\ pc' = "Extracted"
    /\ called' = called \cup {"identify_action", "identify_table"}
    /\ UNCHANGED <<keywords, time_patterns, stop_words, text, repo_id, tokens, matched,
                   remembered, other, parser>>

\* mutant: the test "if not table" is missing
ExtractComponents_no_table_check ==
    /\ pc = "Generic"
    /\ action' = identify_action(tokens, keywords)
    /\ table' = identify_table(tokens, entity_mapping)
    /\ result' = result
    /\ pc' = "Extracted"
    /\ called' = called \cup {"identify_action", "identify_table"}
    /\ UNCHANGED <<analyzer, text, repo_id, tokens, matched, remembered, other, parser>>

\* lines 355-358: action, table; if not table: return ...
ExtractComponents ==
    /\ pc = "Generic"
    /\ LET tbl == identify_table(tokens, entity_mapping)
       IN /\ action' = identify_action(tokens, keywords)
          /\ table' = tbl
          /\ IF tbl = ""
             THEN result' = NoEntity /\ pc' = "Failed"
             ELSE result' = result /\ pc' = "Extracted"
    /\ called' = called \cup {"identify_action", "identify_table"}
    /\ UNCHANGED <<analyzer, text, repo_id, tokens, matched, remembered, other, parser>>

\* mutant: the generic query is scoped to the repository of the caller
BuildQuery_scoped ==
    /\ pc = "Extracted"
    /\ LET query == generic_query(text, lower(text.val), tokens, action, table, entity_mapping)
       IN result' = IF repo_id.type = "NoneType" THEN query
                    ELSE SubSeq(query, 1, Len(query) - 1) \o " "
                         \o Where("repo_id", repo_id) \o ";"
    /\ pc' = "Rendered"
    /\ called' = called \cup {"identify_columns", "identify_conditions"}
    /\ UNCHANGED <<analyzer, text, repo_id, tokens, matched, action, table, remembered,
                   other, parser>>

\* lines 360-395: columns, conditions and the query
BuildQuery ==
    /\ pc = "Extracted"
    /\ result' = generic_query(text, lower(text.val), tokens, action, table, entity_mapping)
    /\ pc' = "Rendered"
    /\ called' = called \cup {"identify_columns", "identify_conditions"}
    /\ UNCHANGED <<analyzer, text, repo_id, tokens, matched, action, table, remembered,
                   other, parser>>

Done == pc \in {"Rendered", "Failed"}

\* the call has returned and its frame is gone; the caller may call again
Return ==
    /\ Done
    /\ pc' = "idle"
    /\ text' = NoneText
    /\ repo_id' = NoneId
    /\ tokens' = <<>>
    /\ matched' = 0
    /\ action' = ""
    /\ table' = ""
    /\ called' = {}
    /\ result' = ""
    /\ UNCHANGED <<analyzer, remembered, other, parser>>

Next ==
    \/ \E t \in Texts, r \in RepoIds : Call(t, r)
    \/ Normalize
    \/ MatchSpecialCase
    \/ ExtractComponents
    \/ BuildQuery
    \/ Return

Spec == Init /\ [][Next]_vars

\* Repeated calls, one of which the caller keeps the answer of

AgainTexts ==
    {PyStr(s) : s \in {"", "count_commits", "hello world", "how many commits",
                       "top 5 contributors", "bottom authors", "total files",
                       "Show repositories with more than 1000 stars",
                       "List repositories created this month",
                       "list all commits by author"}}
    \cup {NoneText}

\* the call has returned and the caller keeps what it asked and what it got
ReturnRemembered ==
    /\ Done
    /\ remembered' = <<text, repo_id, result>>
    /\ pc' = "idle"
    /\ text' = NoneText
    /\ repo_id' = NoneId
    /\ tokens' = <<>>
    /\ matched' = 0
    /\ action' = ""
    /\ table' = ""
    /\ called' = {}
    /\ result' = ""
    /\ UNCHANGED <<analyzer, other, parser>>

NextAgain ==
    \/ \E t \in AgainTexts, r \in RepoIds : Call(t, r)
    \/ Normalize
    \/ MatchSpecialCase
    \/ ExtractComponents
    \/ BuildQuery
    \/ Return
    \/ ReturnRemembered

SpecAgain == Init /\ [][NextAgain]_vars

\* Two threads that call build_sql_query on the one analyzer.  One thread
\* runs at a time: text, repo_id, pc and the locals are the frame of the thread
\* that runs, other is the frame of the thread that waits.

ThreadTexts ==
    {PyStr(s) : s \in {"", "hello world", "how many commits", "total files",
                       "file author", "commits repositories", "top 5 contributors",
                       "Show repositories with more than 1000 stars"}}
    \cup {NoneText}
ThreadRepoIds == {NoneId, PyInt(42)}

\* the interpreter suspends the thread that runs and resumes the other one
Switch ==
    /\ other' = [text |-> text, repo_id |-> repo_id, pc |-> pc, tokens |-> tokens,
                 matched |-> matched, action |-> action, table |-> table,
                 called |-> called, result |-> result]
    /\ text' = other.text
    /\ repo_id' = other.repo_id
    /\ pc' = other.pc
    /\ tokens' = other.tokens
    /\ matched' = other.matched
    /\ action' = other.action
    /\ table' = other.table
    /\ called' = other.called
    /\ result' = other.result
    /\ UNCHANGED <<analyzer, remembered, parser>>

NextThreads ==
    \/ \E t \in ThreadTexts, r \in ThreadRepoIds : Call(t, r)
    \/ Normalize
    \/ MatchSpecialCase
    \/ ExtractComponents
    \/ BuildQuery
    \/ Return
    \/ Switch

SpecThreads == Init /\ [][NextThreads]_vars

----------------------------------------------------------------------------
(* GitHubQueryParser of src/NLP/github_analyzer.py: parse_query and build_sql_query *)

\* int(s) for a string of digits
DigitValue(c) == CHOOSE v \in 0..9 : Char(DigitChars, v + 1) = c
RECURSIVE int(_)
int(s) ==
    IF s = "" THEN 0
    ELSE 10 * int(SubSeq(s, 1, Len(s) - 1)) + DigitValue(Char(s, Len(s)))

\* datetime.date: the proleptic Gregorian calendar
IsLeap(y) == y % 4 = 0 /\ (y % 100 # 0 \/ y % 400 = 0)
DaysInMonth(y, m) ==
    IF m = 2 THEN (IF IsLeap(y) THEN 29 ELSE 28)
    ELSE IF m \in {4, 6, 9, 11} THEN 30 ELSE 31
DaysBeforeYear(y) == (y - 1) * 365 + (y - 1) \div 4 - (y - 1) \div 100 + (y - 1) \div 400
RECURSIVE DaysBeforeMonth(_, _)
DaysBeforeMonth(y, m) ==
    IF m = 1 THEN 0 ELSE DaysBeforeMonth(y, m - 1) + DaysInMonth(y, m - 1)

\* date.toordinal() and date.fromordinal(n), for n >= 1
toordinal(d) == DaysBeforeYear(d.year) + DaysBeforeMonth(d.year, d.month) + d.day
fromordinal(n) ==
    LET y == CHOOSE c \in (n \div 366)..(n \div 365 + 1) :
                 c >= 1 /\ DaysBeforeYear(c) < n /\ n <= DaysBeforeYear(c + 1)
        inYear == n - DaysBeforeYear(y)
        m == CHOOSE c \in 1..12 :
                 DaysBeforeMonth(y, c) < inYear
                 /\ inYear <= DaysBeforeMonth(y, c) + DaysInMonth(y, c)
    IN Date(y, m, inYear - DaysBeforeMonth(y, m))

\* date.weekday(): Monday is 0
weekday(d) == (toordinal(d) + 6) % 7

\* (d - datetime.timedelta(days=n)).date(): OverflowError before year 1
MinusDays(d, n) ==
    LET o == toordinal(d) - n
    IN IF o < 1 THEN Raise("OverflowError") ELSE Ok(fromordinal(o))

\* date.isoformat()
Pad(width, n) ==
    LET digits == ToString(n)
    IN SubSeq("0000", 1, width - Len(digits)) \o digits
isoformat(d) == Pad(4, d.year) \o "-" \o Pad(2, d.month) \o "-" \o Pad(2, d.day)

\* self.time_patterns, in dict order: <<key, phrase or unit, number of groups>>
ParserTimePatterns ==
    << <<"today", "today", 0>>,
       <<"yesterday", "yesterday", 0>>,
       <<"this week", "this week", 0>>,
       <<"last week", "last week", 0>>,
       <<"this month", "this month", 0>>,
       <<"last month", "last month", 0>>,
       <<"this year", "this year", 0>>,
       <<"last year", "last year", 0>>,
       <<"days", "day", 1>>,
       <<"weeks", "week", 1>>,
       <<"months", "month", 1>>,
       <<"years", "year", 1>>  >>

\* a match object of a pattern with n groups
MatchGroups(n, g) == [found |-> TRUE, groups |-> n, group1 |-> g]

\* re.search(pattern, text) for the pattern of a time key: a phrase, or
\* (\d+)\s*<unit>s?(?:\s*ago)? whose optional parts never decide the match
time_search(pat, s) ==
    IF pat[3] = 0
    THEN (IF Contains(pat[2], s) THEN MatchGroups(0, "") ELSE NoMatch)
    ELSE LET m == NumberWordSearch(pat[2], s)
         IN IF m.found THEN MatchGroups(1, m.group1) ELSE NoMatch

\* the dict create_time_filter returns
TimeFilter(d) == [column |-> "created_at", operator |-> ">=", value |-> isoformat(d)]
NoFilter == [column |-> "", operator |-> "", value |-> ""]

\* create_time_filter; clock is what datetime.datetime.now() returns.
\* matches.group(1) raises IndexError when the pattern has no group.
create_time_filter(time_key, matches, clock) ==
    LET first == Date(clock.year, clock.month, 1)
        dated(r) == IF r.exc THEN r ELSE Ok(TimeFilter(r.val))
    IN CASE time_key = "today" -> Ok(TimeFilter(clock))
         [] time_key = "yesterday" -> dated(MinusDays(clock, 1))
         [] time_key = "this week" -> dated(MinusDays(clock, weekday(clock)))
         [] time_key = "last week" -> dated(MinusDays(clock, weekday(clock) + 7))
         [] time_key = "this month" -> Ok(TimeFilter(first))
         [] time_key = "last month" ->
                LET last_month == MinusDays(first, 1)
                IN IF last_month.exc THEN last_month
                   ELSE Ok(TimeFilter(Date(last_month.val.year, last_month.val.month, 1)))
         [] OTHER ->
                IF matches.groups < 1 THEN Raise("IndexError")
                ELSE IF matches.group1 # ""
                     THEN LET number == int(matches.group1)
                          IN CASE time_key = "days" -> dated(MinusDays(clock, number))
                               [] time_key = "weeks" -> dated(MinusDays(clock, 7 * number))
                               [] time_key = "months" -> dated(MinusDays(clock, number * 30))
                               [] time_key = "years" -> dated(MinusDays(clock, number * 365))
                               [] OTHER -> Ok(NoFilter)
                     ELSE Ok(NoFilter)

\* the loop of lines 161-166, from the k-th time pattern on
RECURSIVE TimeFilters(_, _, _)
TimeFilters(k, s, clock) ==
    IF k > Len(ParserTimePatterns) THEN Ok(<<>>)
    ELSE LET pat == ParserTimePatterns[k]
             matches == time_search(pat, s)
         IN IF ~matches.found THEN TimeFilters(k + 1, s, clock)
            ELSE LET filter_dict == create_time_filter(pat[1], matches, clock)
                 IN IF filter_dict.exc THEN filter_dict
                    ELSE LET rest == TimeFilters(k + 1, s, clock)
                         IN IF rest.exc THEN rest
                            ELSE Ok((IF filter_dict.val = NoFilter THEN <<>>
                                     ELSE <<filter_dict.val>>) \o rest.val)

\* self.comparison_patterns, in dict order: <<key, alternatives, separator>>
ComparisonPatterns ==
    << <<"greater", <<"more", "greater", "higher", "over", "above">>, " than ">>,
       <<"less", <<"less", "fewer", "lower", "under", "below">>, " than ">>,
       <<"equal", <<"equal", "equals", "exactly">>, " ">>,
       <<"between", <<"between">>, " ">> >>

\* w, sep and at least one digit start at position i of s
WordNumberFrom(w, sep, s, i) ==
    LET a == i + Len(w) + Len(sep)
    IN /\ a - 1 <= Len(s)
       /\ SubSeq(s, i, a - 1) = w \o sep
       /\ DigitsEnd(s, a) > a

\* re.search(r'(w1|w2|...)<sep>(\d+)', s): the leftmost match, the first
\* alternative that matches there
AlternativesSearch(ws, sep, s) ==
    LET hits == {i \in 1..Len(s) : \E k \in 1..Len(ws) : WordNumberFrom(ws[k], sep, s, i)}
    IN IF hits = {} THEN NoMatch
       ELSE LET i == CHOOSE j \in hits : \A h \in hits : j <= h
                alts == {k \in 1..Len(ws) : WordNumberFrom(ws[k], sep, s, i)}
                w == ws[CHOOSE k \in alts : \A h \in alts : k <= h]
                a == i + Len(w) + Len(sep)
            IN [found |-> TRUE, groups |-> 2, group1 |-> w,
                group2 |-> SubSeq(s, a, DigitsEnd(s, a) - 1)]

\* "between (\d+) and (\d+)" matches at position i of s
BetweenAt(s, i) ==
    LET c == DigitsEnd(s, i + Len("between "))
        d == c + Len(" and ")
    IN /\ WordNumberFrom("between", " ", s, i)
       /\ d - 1 <= Len(s)
       /\ SubSeq(s, c, d - 1) = " and "
       /\ DigitsEnd(s, d) > d

\* re.search(r'between (\d+) and (\d+)', s)
BetweenSearch(s) ==
    LET hits == {i \in 1..Len(s) : BetweenAt(s, i)}
    IN IF hits = {} THEN NoMatch
       ELSE LET i == CHOOSE j \in hits : \A h \in hits : j <= h
                a == i + Len("between ")
                c == DigitsEnd(s, a)
                d == c + Len(" and ")
            IN [found |-> TRUE, groups |-> 2, group1 |-> SubSeq(s, a, c - 1),
                group2 |-> SubSeq(s, d, DigitsEnd(s, d) - 1)]

comparison_search(pat, s) ==
    IF pat[1] = "between" THEN BetweenSearch(s) ELSE AlternativesSearch(pat[2], pat[3], s)

\* create_comparison_filter, for a match
create_comparison_filter(comp_key, matches) ==
    IF comp_key = "between"
    THEN [column |-> "count", operator |-> "BETWEEN",
          value |-> <<int(matches.group1), int(matches.group2)>>]
    ELSE [column |-> "count",
          operator |-> IF comp_key = "greater" THEN ">="
                       ELSE IF comp_key = "less" THEN "<=" ELSE "=",
          value |-> int(matches.group2)]

\* the loop of lines 169-174, from the k-th comparison pattern on
RECURSIVE ComparisonFilters(_, _)
ComparisonFilters(k, s) ==
    IF k > Len(ComparisonPatterns) THEN <<>>
    ELSE LET pat == ComparisonPatterns[k]
             matches == comparison_search(pat, s)
         IN (IF matches.found THEN <<create_comparison_filter(pat[1], matches)>> ELSE <<>>)
            \o ComparisonFilters(k + 1, s)

\* lines 177-183: re.search(r'(open|closed|merged|pending)', text)
States == <<"open", "closed", "merged", "pending">>
StateFilters(s) ==
    LET at(i) == {k \in 1..Len(States) : startswith(SubSeq(s, i, Len(s)), States[k])}
        hits == {i \in 1..Len(s) : at(i) # {}}
    IN IF hits = {} THEN <<>>
       ELSE LET i == CHOOSE j \in hits : \A h \in hits : j <= h
                k == CHOOSE j \in at(i) : \A h \in at(i) : j <= h
            IN << [column |-> "state", operator |-> "=", value |-> States[k]] >>

\* detect_filters, for the text of the doc; nothing catches what
\* create_time_filter raises
detect_filters(s, clock) ==
    LET low == lower(s)
        timed == TimeFilters(1, low, clock)
    IN IF timed.exc THEN timed
       ELSE Ok(timed.val \o ComparisonFilters(1, low) \o StateFilters(low))

\* self.intent_patterns, in dict order
IntentPatterns ==
    << <<"SELECT", <<"show", "find", "display", "list", "get", "what", "which">> >>,
       <<"COUNT", <<"count", "how many", "total number">> >>,
       <<"UPDATE", <<"update", "modify", "change">> >>,
       <<"DELETE", <<"delete", "remove">> >>,
       <<"INSERT", <<"add", "insert", "create">> >> >>

\* detect_intent: COUNT first, then the intents in dict order
detect_intent(s) ==
    LET low == lower(s)
        hits == {k \in 1..Len(IntentPatterns) : ContainsAny(IntentPatterns[k][2], low)}
    IN IF ContainsAny(IntentPatterns[2][2], low) THEN "COUNT"
       ELSE IF hits = {} THEN "SELECT"
       ELSE IntentPatterns[CHOOSE k \in hits : \A h \in hits : k <= h][1]

\* self.entity_mappings, in dict order
EntityMappings ==
    << [entity |-> "repository",
        patterns |-> <<"repo", "repository", "repositories", "project">>,
        table |-> "repositories",
        default |-> <<"id", "name", "full_name", "description">>,
        stats |-> <<"stargazers_count", "forks_count", "watchers_count">>,
        details |-> <<"language", "created_at", "updated_at", "archived">>],
       [entity |-> "commit",
        patterns |-> <<"commit", "commits", "change", "changes">>,
        table |-> "commits",
        default |-> <<"id", "sha", "message">>,
        stats |-> <<"additions", "deletions", "total">>,
        details |-> <<"author_id", "committer_id", "created_at">>],
       [entity |-> "issue",
        patterns |-> <<"issue", "issues", "bug", "bugs", "ticket">>,
        table |-> "issues",
        default |-> <<"id", "number", "title", "state">>,
        stats |-> <<"comments_count", "reactions_count">>,
        details |-> <<"body", "created_at", "updated_at", "closed_at">>],
       [entity |-> "pull_request",
        patterns |-> <<"pr", "pull request", "merge request">>,
        table |-> "pull_requests",
        default |-> <<"id", "number", "title", "state">>,
        stats |-> <<"comments_count", "commits_count">>,
        details |-> <<"body", "merged_at", "created_at">>] >>

\* self.entity_mappings[entity]
EntityInfo(entity) ==
    EntityMappings[CHOOSE k \in 1..Len(EntityMappings) : EntityMappings[k].entity = entity]

\* detect_entity: the first entity in dict order one of whose patterns occurs
\* in the text, or None
detect_entity(s) ==
    LET low == lower(s)
        hits == {k \in 1..Len(EntityMappings) : ContainsAny(EntityMappings[k].patterns, low)}
    IN IF hits = {} THEN ""
       ELSE EntityMappings[CHOOSE k \in hits : \A h \in hits : k <= h].entity

detect_columns(s, entity) ==
    LET low == lower(s)
    IN IF entity = "" THEN <<"*">>
       ELSE IF ContainsAny(<<"count", "number", "stats", "statistics">>, low)
            THEN EntityInfo(entity).stats
       ELSE IF ContainsAny(<<"details", "information", "full", "all">>, low)
            THEN EntityInfo(entity).details
       ELSE EntityInfo(entity).default

\* str.isdigit, for the characters of the queries
isdigit(s) == s # "" /\ \A i \in 1..Len(s) : IsDigit(Char(s, i))

\* lines 272-277: the condition of one filter.  The value of a comparison
\* filter is an int or a tuple of ints, every other value is a str.
where_condition(filter_dict) ==
    LET column == filter_dict.column
        operator == filter_dict.operator
        value == filter_dict.value
    IN IF operator = "BETWEEN"
       THEN column \o " BETWEEN " \o ToString(value[1]) \o " AND " \o ToString(value[2])
       ELSE IF column = "count"
       THEN column \o " " \o operator \o " " \o ToString(value)
       ELSE IF ~isdigit(value)
       THEN column \o " " \o operator \o " '" \o value \o "'"
       ELSE column \o " " \o operator \o " " \o value

\* " AND ".join(where_conditions)
RECURSIVE JoinConditions(_)
JoinConditions(fs) ==
    IF fs = <<>> THEN ""
    ELSE where_condition(Head(fs))
         \o (IF Len(fs) = 1 THEN "" ELSE " AND " \o JoinConditions(Tail(fs)))

\* ', '.join(columns)
RECURSIVE JoinColumns(_)
JoinColumns(cs) ==
    IF cs = <<>> THEN ""
    ELSE Head(cs) \o (IF Len(cs) = 1 THEN "" ELSE ", " \o JoinColumns(Tail(cs)))

CouldNotDetermine == "Could not determine the table to query"

\* GitHubQueryParser.build_sql_query(parsed_data); fs is parsed_data['filters']
parser_build_sql_query(data, fs) ==
    IF data.entity = "" THEN CouldNotDetermine
    ELSE LET tbl == EntityInfo(data.entity).table
             query == IF data.intent = "COUNT" THEN "SELECT COUNT(*) FROM " \o tbl
                      ELSE "SELECT " \o JoinColumns(data.columns) \o " FROM " \o tbl
         IN query \o (IF fs # <<>> THEN " WHERE " \o JoinConditions(fs) ELSE "") \o ";"

\* the queries given to parse_query, and the days on which they are given
ParserQueries ==
    {"", "show repositories", "Show issues created today", "commits from yesterday",
     "issues of this week", "Count open issues from last week",
     "Show commits by author in this month", "Find repositories updated in the last month",
     "commits of this year", "issues closed last year", "today and yesterday",
     "Find pull requests created in the last 30 days", "commits 3 days ago",
     "issues from 2 weeks ago", "merged 1 month ago", "repositories 2 months ago",
     "commits 1 year ago", "issues 2years ago", "3 days and 2 weeks and 1 month and 1 year",
     "commits 9999 years ago", "Show all repositories with more than 1000 stars",
     "fewer than 10 issues last week", "exactly 3 commits today", "equals 7",
     "between 1 and 5 pending", "Count total commits in the last 24 hours",
     "Show repositories with more than 1000 stars", "reopened issues",
     "closed and open issues", "Show pull requests in pending state",
     "List open pull requests with more than 5 comments", "merged pull requests",
     "all details of project tickets", "how many bugs are open",
     "commits between 10 and 20"}
Clock == {Date(2024, 3, 1), Date(2024, 12, 31), Date(2025, 1, 1), Date(2023, 7, 16)}

\* parse_query(q), lines 93-97: doc = self.nlp(query.lower()), detect_intent and
\* detect_entity, up to the call of detect_filters at line 98
ParseCall(q, d) ==
    /\ ppc = "idle"
    /\ doc' = lower(q)
    /\ now' = d
    /\ filters' = <<>>
    /\ parsed_data' = [intent |-> detect_intent(lower(q)),
                       entity |-> detect_entity(lower(q)),
                       columns |-> <<>>]
    /\ sql_query' = ""
    /\ ppc' = "detect_filters"
    /\ UNCHANGED <<analyzer, text, repo_id, pc, locals, remembered, other>>

\* detect_filters(doc) returns its filters, or raises
DetectFilters ==
    /\ ppc = "detect_filters"
    /\ LET r == detect_filters(doc, now)
       IN IF r.exc
          THEN filters' = <<>> /\ ppc' = r.val
          ELSE filters' = r.val /\ ppc' = "Returned"
    /\ UNCHANGED <<analyzer, text, repo_id, pc, locals, remembered, other, doc, now,
                   parsed_data, sql_query>>

ParserDone == ppc \in {"Returned", "IndexError", "OverflowError"}

\* parse_query, lines 99-106: detect_columns, and the dict is returned
DetectColumns ==
    /\ ppc = "Returned"
    /\ parsed_data' = [parsed_data EXCEPT !.columns = detect_columns(doc, parsed_data.entity)]
    /\ ppc' = "Parsed"
    /\ UNCHANGED <<analyzer, text, repo_id, pc, locals, remembered, other, doc, now,
                   filters, sql_query>>

\* the caller hands the dict to build_sql_query, as main and the accuracy
\* test do
BuildSql ==
    /\ ppc = "Parsed"
    /\ sql_query' = parser_build_sql_query(parsed_data, filters)
    /\ ppc' = "Built"
    /\ UNCHANGED <<analyzer, text, repo_id, pc, locals, remembered, other, doc, now,
                   filters, parsed_data>>

\* the call is over, by a return or by an exception, and the caller may call
\* again
ParseReturn ==
    /\ ppc \in {"Built", "IndexError", "OverflowError"}
    /\ doc' = ""
    /\ now' = Epoch
    /\ filters' = <<>>
    /\ parsed_data' = NoParsedData
    /\ sql_query' = ""
    /\ ppc' = "idle"
    /\ UNCHANGED <<analyzer, text, repo_id, pc, locals, remembered, other>>

NextParser ==
    \/ \E q \in ParserQueries, d \in Clock : ParseCall(q, d)
    \/ DetectFilters
    \/ DetectColumns
    \/ BuildSql
    \/ ParseReturn

SpecParser == Init /\ [][NextParser]_vars

----------------------------------------------------------------------------
(* Properties *)

IdentifyMethods ==
    {"identify_action", "identify_table", "identify_columns", "identify_conditions"}

\* the lower-cased text of the running call (text is a str)
text_lower == lower(text.val)

\* the special cases whose condition holds
Satisfied(low) == {i \in 1..NumSpecialCases : SpecialCase(i, low)}

\* the earliest-declared of the special cases S
Earliest(S) == CHOOSE i \in S : \A j \in S : i <= j

\* the call returned the string of one of the special cases sat, and called none
\* of the identify_ methods
AnsweredBySpecialCase(low, sat) ==
    /\ \E i \in sat : result = SpecialCaseSQL(i, low, repo_id)
    /\ called \cap IdentifyMethods = {}

ScopedTo(sql, rid) ==
    \E c \in {"WHERE repo_id = ", "WHERE commits.repo_id = "}, e \in {" ", ";"} :
        Contains(c \o FormatInt(rid) \o e, sql)

ScopedCases == {1, 2, 3, 4, 5, 6, 9, 12, 13, 14, 15}
UnscopedCases == {7, 8, 10, 11, 16, 17}
TimeWindowCases == {10, 11}

AllSpace(s) == \A i \in 1..Len(s) : IsSpace(Char(s, i))

\* C4: the empty string and every white-space-only string are answered with the
\* EmptyInput error, and nothing is raised.
C4_BlankIsEmptyInput ==
    /\ pc # "Raised"
    /\ (text.type = "str" /\ AllSpace(text.val) /\ pc \notin {"idle", "Start"})
          => pc = "Failed" /\ result = EmptyInput

\* a call on a non-empty white-space-only text has returned EmptyInput
C4_Witness ==
    /\ pc = "Failed"
    /\ text.type = "str"
    /\ Len(text.val) >= 2
    /\ AllSpace(text.val)
    /\ result = EmptyInput

IsError(r) == r \in {EmptyInput, NoEntity, InternalFault}
IsSQL(r) == startswith(r, "SELECT") /\ endswith(r, ";")

RepeatsRemembered ==
    remembered # <<>> /\ remembered[1] = text /\ remembered[2] = repo_id

\* C7: a call with the text and the repo_id of an earlier call on the same
\* analyzer, whatever was called in between, returns what the earlier call
\* returned.
C7_SameInputSameOutput ==
    (Done /\ RepeatsRemembered) => result = remembered[3]

\* a generic query was built a second time
C7_Witness ==
    /\ pc = "Rendered"
    /\ matched = 0
    /\ RepeatsRemembered
    /\ startswith(remembered[3], "SELECT")
    /\ result = remembered[3]

StarsText == PyStr("Show repositories with more than 1000 stars")

\* C8 as stated: no special case, action SELECT, table repositories, the filter
\* stars >= 1000 and the default repository columns as the projection.
C8_DefaultRepositoryColumns ==
    (Done /\ text = StarsText)
        => /\ matched = 0
           /\ action = "SELECT"
           /\ table = "repositories"
           /\ identify_conditions(text) = <<"stars >= 1000">>
           /\ identify_columns(tokens, table, entity_mapping)
                 = <<"repo_id", "name", "stars", "forks">>
           /\ result = "SELECT repo_id, name, stars, forks FROM repositories WHERE stars >= 1000;"

\* C8 amended: no special case, action SELECT, table repositories, the filter
\* stars >= 1000, and the projection is the one column the text mentions, stars.
C8_MentionedStarsColumn ==
    (Done /\ text = StarsText)
        => /\ matched = 0
           /\ pc = "Rendered"
           /\ called = {"preprocess_text"} \cup IdentifyMethods
           /\ action = "SELECT"
           /\ table = "repositories"
           /\ identify_conditions(text) = <<"stars >= 1000">>
           /\ identify_columns(tokens, table, entity_mapping) = <<"stars">>
           /\ result = "SELECT stars FROM repositories WHERE stars >= 1000;"

C8_Witness ==
    /\ pc = "Rendered"
    /\ text = StarsText
    /\ tokens = <<"show", "repositories", "1000", "stars">>
    /\ result = "SELECT stars FROM repositories WHERE stars >= 1000;"

\* the contributors-by-commit-count query with LIMIT n
TopContributorsWithLimit(n) ==
    "SELECT authors.name, COUNT(commits.commit_id) as commit_count FROM authors JOIN commits ON authors.author_id = commits.author_id GROUP BY authors.author_id, authors.name ORDER BY commit_count DESC LIMIT "
    \o n \o ";"

\* the text low has a "top N", contains "contributor" and matches no earlier
\* special case
TopNContributorsAsked(low) ==
    /\ WordNumberSearch("top", low).found
    /\ Contains("contributor", low)
    /\ \A j \in 1..7 : ~SpecialCase(j, low)

C10_HowManyCommitsOf42 ==
    (Done /\ text = PyStr("how many commits") /\ repo_id = PyInt(42))
        => result = "SELECT COUNT(*) AS total_commits FROM commits WHERE repo_id = 42;"

BugsText == PyStr("which author introduced the most bugs")

\* C11: "which author introduced the most bugs" with repo_id None is answered by
\* the first special case, in its form without a condition on repo_id and ending
\* in LIMIT 1, although the text contains "most" and "author", which later
\* special cases test.
C11_BugIntroductionUnscoped ==
    (Done /\ text = BugsText /\ repo_id = NoneId)
        => LET low == text_lower
           IN \* two of the three conditions of special case 6, which does not hold
              /\ Contains("most", low) /\ Contains("author", low)
              /\ ~SpecialCase(6, low)
              /\ pc = "Rendered"
              /\ matched = 1
              /\ called = {"preprocess_text"}
              /\ result = "SELECT authors.name, COUNT(bugs.bug_id) AS bugs_introduced FROM bugs JOIN commits ON bugs.introduced_commit = commits.commit_id JOIN authors ON commits.author_id = authors.author_id GROUP BY authors.author_id, authors.name ORDER BY bugs_introduced DESC LIMIT 1;"
              /\ ~Contains("WHERE", result)
              /\ ~Contains("repo_id", result)
              /\ endswith(result, " LIMIT 1;")

\* the call on that text with repo_id None has returned
C11_Witness ==
    /\ pc = "Rendered"
    /\ text = BugsText
    /\ repo_id = NoneId
    /\ tokens = <<"author", "introduced", "bugs">>
    /\ matched = 1

Metrics == <<"stars", "forks">>

\* the operator of the directional phrase in front of the count of the metric
AttachedOperator(metric, low) ==
    LET n == NumberWordSearch(metric, low).group1
        counted(d) == \E sp \in {"", " "} : Contains(d \o " " \o n \o sp \o metric, low)
    IN IF counted("more than") \/ counted("greater than") THEN ">="
       ELSE IF counted("less than") THEN "<="
       ELSE "="

\* C12 as stated: identify_conditions returns exactly one comparison for each of
\* stars and forks that the text gives a count of, none for the other, and the
\* operator of each is the one of the directional phrase in front of its own
\* count: >= for "more than" and "greater than", <= for "less than", = without.
C12_OperatorPerMetric ==
    (Done /\ "identify_conditions" \in called)
        => LET low == text_lower
               conds == identify_conditions(text)
           IN \A k \in 1..Len(Metrics) :
                 LET metric == Metrics[k]
                     m == NumberWordSearch(metric, low)
                     mine == {i \in 1..Len(conds) : startswith(conds[i], metric \o " ")}
                 IN IF m.found
                    THEN /\ Cardinality(mine) = 1
                         /\ \A i \in mine :
                               conds[i] = metric \o " " \o AttachedOperator(metric, low)
                                                 \o " " \o m.group1
                    ELSE mine = {}

Reverse(s) == [i \in 1..Len(s) |-> s[Len(s) + 1 - i]]

\* the entities, by their position in the mapping, that have a pattern among the
\* words
EntitiesOf(words, em) ==
    {e \in 1..Len(em) : \E i \in 1..Len(words) : InList(words[i], em[e].patterns)}

\* C13: the table identify_table returns is the table of the earliest-declared
\* entity that has a pattern among the tokens (None when there is none), and the
\* same table is returned for the tokens in the opposite order.
C13_EarliestEntityWins ==
    (Done /\ "identify_table" \in called)
        => LET hit == EntitiesOf(tokens, entity_mapping)
           IN /\ hit = {} <=> table = ""
              /\ hit # {} => table = entity_mapping[Earliest(hit)].table
              /\ identify_table(Reverse(tokens), entity_mapping) = table

\* the tokens name a later entity before an earlier one, and the earlier one won
C13_Witness ==
    /\ pc = "Rendered"
    /\ tokens = <<"commits", "repositories">>
    /\ Cardinality(EntitiesOf(tokens, entity_mapping)) = 2
    /\ table = "repositories"

\* the patterns of the e-th entity, as a set
PatternsOf(em, e) == {em[e].patterns[p] : p \in 1..Len(em[e].patterns)}

\* C14 as stated: no string is a pattern of two different entities of
\* entity_mapping, so that every token is a pattern of at most one entity.
C14_DisjointSynonyms ==
    /\ \A e, f \in 1..Len(entity_mapping) :
          e # f => PatternsOf(entity_mapping, e) \cap PatternsOf(entity_mapping, f) = {}
    /\ \A i \in 1..Len(tokens) :
          Cardinality(EntitiesOf(<<tokens[i]>>, entity_mapping)) <= 1

\* every pattern of every entity
Synonyms(em) == UNION {PatternsOf(em, e) : e \in 1..Len(em)}

\* what follows the first occurrence of sub in s
AfterFirst(sub, s) ==
    LET at == {i \in 1..(Len(s) - Len(sub) + 1) : SubSeq(s, i, i + Len(sub) - 1) = sub}
    IN IF at = {} THEN ""
       ELSE SubSeq(s, (CHOOSE i \in at : \A j \in at : i <= j) + Len(sub), Len(s))

\* C15: a call that has tokens and matches no special case returns the NoEntity
\* error exactly when no token is a pattern of an entity; otherwise it returns a
\* SQL string whose FROM names the table of the entity identified.
C15_NoEntityIffNoSynonym ==
    (Done /\ text.type = "str" /\ tokens # <<>> /\ matched = 0)
        => LET syn == {i \in 1..Len(tokens) : tokens[i] \in Synonyms(entity_mapping)}
           IN /\ result = NoEntity <=> syn = {}
              /\ syn = {} => pc = "Failed"
              /\ syn # {}
                    => /\ pc = "Rendered"
                       /\ IsSQL(result)
                       /\ \E e \in EntitiesOf(tokens, entity_mapping) :
                             table = entity_mapping[e].table
                       /\ \E end \in {" ", ";"} :
                             startswith(AfterFirst(" FROM ", result), table \o end)

\* a call whose tokens name no entity has returned the NoEntity error
C15_Witness ==
    /\ pc = "Failed"
    /\ matched = 0
    /\ tokens = <<"hello", "world">>
    /\ "identify_table" \in called
    /\ result = NoEntity

\* the number of occurrences of the character c in s
CountChar(c, s) == Cardinality({i \in 1..Len(s) : Char(s, i) = c})

\* C16: every returned string that is not an error value, from a special case or
\* from the generic query, ends with ";" and has no other ";".
C16_SingleStatement ==
    (Done /\ ~IsError(result))
        => /\ pc = "Rendered"
           /\ endswith(result, ";")
           /\ CountChar(";", result) = 1

\* a generic query was returned for a text that has a ";" in it
C16_Witness ==
    /\ pc = "Rendered"
    /\ matched = 0
    /\ Contains(";", text.val)
    /\ endswith(result, " FROM commits;")

\* what build_sql_query(t, r) returns on a newly constructed analyzer that no
\* other call uses
AloneResult(t, r) ==
    LET toks == preprocess_text(t, EnglishStopWords)
        low == str_lower(t)
    IN IF toks = <<>> THEN EmptyInput
       ELSE IF low.exc THEN InternalFault
       ELSE LET m == special_case(low.val)
                tbl == identify_table(toks, InitEntityMapping)
            IN IF m # 0 THEN SpecialCaseSQL(m, low.val, r)
               ELSE IF tbl = "" THEN NoEntity
               ELSE generic_query(t, low.val, toks, identify_action(toks, InitKeywords),
                                  tbl, InitEntityMapping)

Returned(p) == p \in {"Rendered", "Failed"}

\* C17: the fields of the analyzer are never written, and each of two calls
\* that two threads run on it, their steps interleaved in any way, returns what
\* it returns when it runs alone.
C17_SharedInstanceReadOnly ==
    /\ keywords = InitKeywords
    /\ entity_mapping = InitEntityMapping
    /\ time_patterns = InitTimePatterns
    /\ stop_words = EnglishStopWords
    /\ Returned(pc) => result = AloneResult(text, repo_id)
    /\ Returned(other.pc) => other.result = AloneResult(other.text, other.repo_id)

\* a generic query has been built while the call of the other thread, which
\* names two entities, was between two of its steps
C17_Witness ==
    /\ pc = "Rendered"
    /\ matched = 0
    /\ table = "files"
    /\ other.pc = "Generic"
    /\ other.tokens = <<"file", "author">>

CountFamily == {"count", "total", "sum"}

\* C18 as stated: the action identify_action returns is SELECT COUNT(*) whenever
\* one of the tokens is "count", "total" or "sum", also when a token that is a
\* keyword of SELECT comes before it, and it is SELECT when no token is a keyword
\* or one of these three.
C18_CountBeforeSelect ==
    (Done /\ "identify_action" \in called)
        => IF \E i \in 1..Len(tokens) : tokens[i] \in CountFamily
           THEN action = "SELECT COUNT(*)"
           ELSE (\A i \in 1..Len(tokens) : ~IsKeyword(keywords, tokens[i]))
                    => action = "SELECT"

AggregateCues == <<"count", "how many", "total">>

\* C19 as stated: a generic query for a text that contains "count", "how many"
\* or "total" has the single column COUNT(*), whatever columns the text names
\* and whatever the default columns of the table are.
C19_AggregateCueGivesCountStar ==
    (pc = "Rendered" /\ matched = 0 /\ "identify_columns" \in called)
        => (ContainsAny(AggregateCues, text_lower)
               => /\ identify_columns(tokens, table, entity_mapping) = <<"COUNT(*)">>
                  /\ startswith(result, action \o " COUNT(*) FROM " \o table))

ClosedPhrases ==
    <<"today", "yesterday", "this week", "last week", "this month", "last month",
      "this year", "last year">>
Units == <<"day", "week", "month", "year">>

\* the number of time phrases of s: the phrases of the closed set that occur in
\* it and the units it gives a number of
TimePhrasesIn(s) ==
    Cardinality({k \in 1..Len(ClosedPhrases) : Contains(ClosedPhrases[k], s)})
    + Cardinality({k \in 1..Len(Units) : NumberWordSearch(Units[k], s).found})

\* the filter for the day that is n days before the day d
FilterDaysBefore(d, n) == TimeFilter(fromordinal(toordinal(d) - n))

\* C20 as stated: detect_filters does not raise, it returns one filter on
\* created_at, with the operator >=, for each time phrase that occurs in the text,
\* and the cutoff of N months is 30 * N days, that of N years 365 * N days, before
\* today.
C20_OneFilterPerTimePhrase ==
    ParserDone
        => /\ ppc = "Returned"
           /\ Cardinality({i \in 1..Len(filters) : filters[i].column = "created_at"})
                 = TimePhrasesIn(doc)
           /\ \A i \in 1..Len(filters) :
                 filters[i].column = "created_at" => filters[i].operator = ">="
           /\ LET months == NumberWordSearch("month", doc)
                  years == NumberWordSearch("year", doc)
              IN /\ months.found
                       => InList(FilterDaysBefore(now, 30 * int(months.group1)), filters)
                 /\ years.found
                       => InList(FilterDaysBefore(now, 365 * int(years.group1)), filters)

\* the status words that occur in s, and the one that occurs leftmost
StatusWordsIn(s) == {k \in 1..Len(States) : Contains(States[k], s)}
FirstAt(w, s) == CHOOSE i \in 1..Len(s) :
                    /\ startswith(SubSeq(s, i, Len(s)), w)
                    /\ \A j \in 1..(i - 1) : ~startswith(SubSeq(s, j, Len(s)), w)
LeftmostStatusWord(s) ==
    States[CHOOSE k \in StatusWordsIn(s) :
              \A h \in StatusWordsIn(s) : FirstAt(States[k], s) <= FirstAt(States[h], s)]
StatusFilter(w) == [column |-> "state", operator |-> "=", value |-> w]
StatusFiltersOf(fs) == {i \in 1..Len(fs) : fs[i].column = "state"}

\* C21 as stated: once detect_filters is over, the filters hold a filter on
\* state only if open, closed, merged or pending occurs in the text, and then
\* exactly one, state = the word that occurs leftmost; the statement that
\* build_sql_query makes of them has the condition state = '<word>', quoted.
C21_OneStatusFilter ==
    ppc \notin {"idle", "detect_filters"}
        => IF StatusWordsIn(doc) = {}
           THEN StatusFiltersOf(filters) = {}
           ELSE /\ Cardinality(StatusFiltersOf(filters)) = 1
                /\ InList(StatusFilter(LeftmostStatusWord(doc)), filters)
                /\ (ppc = "Built" /\ sql_query # CouldNotDetermine)
                      => Contains("state = '" \o LeftmostStatusWord(doc) \o "'", sql_query)

\* the words that make a text a query about contributors in the bottom-N
\* special case
ContributorWords ==
    <<"contributor", "contributors", "author", "authors", "developer", "developers">>

\* the call returned the contributors query in ascending order with LIMIT n
BottomContributorsWithLimit(n) ==
    /\ startswith(result, "SELECT authors.name AS name, COUNT(commits.commit_id) AS commit_count ")
    /\ endswith(result, " ORDER BY commit_count ASC LIMIT " \o n \o ";")

\* C22 as stated: a text that contains "top contributors" and no "top N" gets
\* the contributors-by-commit query with LIMIT 10; a text that contains "bottom"
\* and a contributor word and no "bottom N" gets the ascending query with
\* LIMIT 3; with an explicit N the LIMIT is N.
C22_DefaultLimits ==
    (Done /\ text.type = "str")
        => LET low == text_lower
               top == WordNumberSearch("top", low)
               bottom == WordNumberSearch("bottom", low)
           IN /\ (Contains("top contributors", low) /\ ~top.found)
                    => result = TopContributorsWithLimit("10")
              /\ (Contains("bottom", low) /\ ContainsAny(AuthorWords, low) /\ ~bottom.found)
                    => BottomContributorsWithLimit("3")
              /\ (top.found /\ Contains("contributor", low))
                    => result = TopContributorsWithLimit(top.group1)
              /\ (bottom.found /\ ContainsAny(AuthorWords, low))
                    => BottomContributorsWithLimit(bottom.group1)

\* C22 amended: for the texts that keep at least one token after
\* preprocess_text and satisfy no earlier special case, "top contributors by
\* commit" gets the contributors-by-commit query with LIMIT 10, "bottom" with a
\* contributor word and no "bottom N" gets the ascending query with LIMIT 3, and
\* with a "top N" or "bottom N" the LIMIT is the N of the leftmost match.
C22_DefaultLimitsOfTemplates ==
    (Done /\ text.type = "str" /\ tokens # <<>>)
        => LET low == text_lower
               top == WordNumberSearch("top", low)
               bottom == WordNumberSearch("bottom", low)
               first == IF Satisfied(low) = {} THEN 0 ELSE Earliest(Satisfied(low))
           IN /\ (Contains("top contributors by commit", low) /\ first >= 7)
                    => matched = 7 /\ result = TopContributorsWithLimit("10")
              /\ (Contains("bottom", low) /\ ContainsAny(ContributorWords, low)
                     /\ ~bottom.found /\ first >= 9)
                    => matched = 9 /\ BottomContributorsWithLimit("3")
              /\ (top.found /\ Contains("contributor", low) /\ first >= 8)
                    => matched = 8 /\ result = TopContributorsWithLimit(top.group1)
              /\ (bottom.found /\ ContainsAny(ContributorWords, low) /\ first >= 9)
                    => matched = 9 /\ BottomContributorsWithLimit(bottom.group1)
              /\ text.val = "top contributors" => matched = 0 /\ ~Contains("LIMIT", result)

C22_Witness ==
    /\ pc = "Rendered"
    /\ text = PyStr("bottom contributors")
    /\ tokens # <<>>
    /\ matched = 9
    /\ endswith(result, " ORDER BY commit_count ASC LIMIT 3;")

\* the call was answered by the generic query
GenericAnswer == pc = "Rendered" /\ matched = 0

\* the number of occurrences of sub in s
Occurrences(sub, s) ==
    Cardinality({i \in 1..(Len(s) - Len(sub) + 1) : SubSeq(s, i, i + Len(sub) - 1) = sub})

JoinAuthors == " JOIN authors ON commits.author_id = authors.author_id"
JoinRepositories == " JOIN repositories ON commits.repo_id = repositories.repo_id"

\* C23: a generic query has a JOIN only when its table is commits: the join to
\* authors exactly when the text contains "author", the join to repositories
\* exactly when it contains "repository", and no other; a query on another table
\* has no JOIN; the joins come right after the table, before WHERE.
C23_JoinOnlyForCommits ==
    GenericAnswer
        => LET low == text_lower
               joins == (IF Contains(JoinAuthors, result) THEN 1 ELSE 0)
                        + (IF Contains(JoinRepositories, result) THEN 1 ELSE 0)
           IN /\ table # "commits" => ~Contains("JOIN", result)
              /\ table = "commits"
                    => /\ Contains(JoinAuthors, result) <=> Contains("author", low)
                       /\ Contains(JoinRepositories, result) <=> Contains("repository", low)
              /\ Occurrences("JOIN", result) = joins
              /\ ~Contains("JOIN", AfterFirst(" WHERE ", result))
              /\ Contains("JOIN", result)
                    => startswith(AfterFirst(" FROM commits", result), " JOIN ")

C23_Witness ==
    /\ GenericAnswer
    /\ text = PyStr("commits authored this month")
    /\ table = "commits"
    /\ Contains(JoinAuthors \o " WHERE ", result)

\* the cues of the grouping branch
GroupingCues == <<"per", "group by", "count by">>

\* the names identify_table returns
TableNames == {"repositories", "authors", "commits", "files", "diffs"}

\* C24: the table of a generic query is one of the lower-case names of
\* identify_table, and no generic query contains GROUP BY, with or without a
\* grouping cue in the text.
C24_NoGroupByOnGenericPath ==
    GenericAnswer
        => /\ table \in TableNames
           /\ ~Contains("GROUP BY", result)

C24_Witness ==
    /\ GenericAnswer
    /\ text = PyStr("files per repository")
    /\ ContainsAny(GroupingCues, text_lower)
    /\ table = "repositories"
    /\ result = "SELECT repo_id, name, stars, forks FROM repositories;"

SuperlativeCues == <<"top", "most", "highest">>
MetricKeywords == <<"commit", "stars", "forks">>

\* the column the generic query is ordered by: commit before stars before forks
OrderColumn(low) ==
    IF Contains("commit", low) THEN "commit_count"
    ELSE IF Contains("stars", low) THEN "stars" ELSE "forks"

\* C25: a generic query has an ORDER BY exactly when the text contains a
\* superlative cue and a metric keyword; it then has one ORDER BY, of the first
\* of commit (column commit_count), stars, forks that the text contains, DESC,
\* as its last clause before the ";".
C25_OrderByIffCueAndMetric ==
    GenericAnswer
        => LET low == text_lower
               ordered == ContainsAny(SuperlativeCues, low) /\ ContainsAny(MetricKeywords, low)
           IN /\ Contains("ORDER BY", result) <=> ordered
              /\ ordered
                    => /\ Occurrences("ORDER BY", result) = 1
                       /\ endswith(result, " ORDER BY " \o OrderColumn(low) \o " DESC;")

C25_Witness ==
    /\ GenericAnswer
    /\ text = PyStr("repositories with highest forks and stars")
    /\ result = "SELECT stars, forks FROM repositories ORDER BY stars DESC;"

\* the metrics a query compares
ComparedMetrics == {"stars", "forks", "comments", "issues"}

\* the N of the leftmost "more than N" of s
MoreThan(s) == AlternativesSearch(<<"more">>, " than ", s)

CommitsPerRepository ==
    "SELECT repositories.name, COUNT(commits.commit_id) as commit_count FROM repositories LEFT JOIN commits ON repositories.repo_id = commits.repo_id GROUP BY repositories.repo_id, repositories.name ORDER BY commit_count DESC;"

\* C27 as stated, for the special case declared last: a text that contains
\* "count commits per repository" and keeps a token is answered by the special
\* case of that phrase when no other special case than the plain count of
\* commits claims it, so that this special case is rendered for some text.
C27_PerRepositoryTemplateRendered ==
    (Done /\ text.type = "str" /\ tokens # <<>>)
        => LET low == text_lower
           IN (Contains("count commits per repository", low)
                  /\ Satisfied(low) \subseteq {12, 17})
                 => matched = 17 /\ result = CommitsPerRepository

\* C28: every error value that build_sql_query returns starts with "Error" and
\* every SQL string with "SELECT", so that api_query answers exactly the calls
\* that failed as errors and executes exactly the rendered statements.
C28_PrefixDiscriminates ==
    Done => /\ pc = "Failed" => (IsError(result) /\ startswith(result, "Error"))
            /\ pc = "Rendered" => (~IsError(result) /\ startswith(result, "SELECT"))
            /\ api_query_rejects(result) <=> pc = "Failed"
            /\ ~api_query_rejects(result) => IsSQL(result)

C28_Witness ==
    /\ pc = "Failed"
    /\ text = PyStr("hello world")
    /\ repo_id = PyInt(42)
    /\ result = NoEntity
    /\ api_query_rejects(result)

\* the running call has the text of the remembered one
SameTextAsRemembered == remembered # <<>> /\ remembered[1] = text

\* C29: a call that no special case answers returns what an earlier call with
\* the same text returned, whatever the repo_id of either call was, None
\* included.
C29_GenericIgnoresRepoId ==
    (Done /\ SameTextAsRemembered /\ matched = 0) => result = remembered[3]

\* a generic query was built for two different repo_id
C29_Witness ==
    /\ GenericAnswer
    /\ SameTextAsRemembered
    /\ text = PyStr("list all commits by author")
    /\ remembered[2] = PyInt(42)
    /\ repo_id = NoneId
    /\ result = remembered[3]

\* C30 as stated: a generic query is SELECT, one projection, FROM, the table;
\* when the action is SELECT COUNT(*) the projection is the aggregate, which
\* occurs once in the statement.
C30_OneProjection ==
    GenericAnswer
        => /\ startswith(result, "SELECT ")
           /\ Occurrences(" FROM ", result) = 1
           /\ action = "SELECT COUNT(*)"
                 => /\ startswith(result, "SELECT COUNT(*) FROM " \o table)
                    /\ Occurrences("COUNT(*)", result) = 1

====
